---- MODULE Spec2Model ----
(***************************************************************************)
(* The expression parser of sql/parser/expr.go, as a state machine.       *)
(*                                                                         *)
(* A Parser owns a token source over a source string, a capture buffer     *)
(* and the two bind-parameter counters.  The statement parser calls        *)
(* ParseExpr, parseParam and ScanIgnoreWhitespace on it.  Every parsing    *)
(* function of expr.go is an operator from a parser state to a parser      *)
(* state and a result; the actions apply them to the parser in `p`.        *)
(*                                                                         *)
(* Strings are sequences of one-character strings, so that the capture     *)
(* buffer, strings.TrimSpace and the scanner work on characters.           *)
(***************************************************************************)
EXTENDS Integers, Sequences, FiniteSets, TLC

VARIABLES
    src,      \* the source string handed to NewParser
    p,        \* the Parser
    res,      \* what the last call on the parser returned
    orig,     \* the result whose literal the current parser was built from
    shape,    \* how the source was put together (operands, operators, pairs)
    calls     \* number of calls made on the parser so far

vars == <<src, p, res, orig, shape, calls>>

----------------------------------------------------------------------------
(* Characters *)

WhiteSpace == {" ", "\t", "\n"}

Digits == {"0", "1", "2", "3", "4", "5", "6", "7", "8", "9"}

Letters ==
    {"a", "b", "c", "d", "e", "f", "g", "h", "i", "j", "k", "l", "m",
     "n", "o", "p", "q", "r", "s", "t", "u", "v", "w", "x", "y", "z",
     "A", "B", "C", "D", "E", "F", "G", "H", "I", "J", "K", "L", "M",
     "N", "O", "P", "Q", "R", "S", "T", "U", "V", "W", "X", "Y", "Z"}

IdentStart == Letters \cup {"_"}

IdentChars == Letters \cup Digits \cup {"_"}

Nil == [t |-> "nil"]

\* s[from..to], empty when from > to
Sub(s, from, to) ==
    IF from > to THEN <<>> ELSE SubSeq(s, from, to)

\* the first index >= k of cs that holds no character of set S
Span(cs, k, S) ==
    IF k > Len(cs) THEN k
    ELSE IF \A j \in k..Len(cs) : cs[j] \in S THEN Len(cs) + 1
    ELSE CHOOSE j \in k..Len(cs) :
             cs[j] \notin S /\ \A i \in k..(j - 1) : cs[i] \in S

----------------------------------------------------------------------------
(* The scanner: the tokens of a source string, each with its kind, its     *)
(* literal value and the raw text it was read from.                        *)

Token(tok, lit, raw) == [tok |-> tok, lit |-> lit, raw |-> raw]

EOFToken == Token("EOF", <<>>, <<>>)

\* the zero TokenInfo, the token buffer's content before any token is read
NoToken == Token("ILLEGAL", <<>>, <<>>)

ToUpper ==
    ("a" :> "A") @@ ("b" :> "B") @@ ("c" :> "C") @@ ("d" :> "D") @@ ("e" :> "E") @@ ("f" :> "F")
    @@ ("g" :> "G") @@ ("h" :> "H") @@ ("i" :> "I") @@ ("j" :> "J") @@ ("k" :> "K") @@ ("l" :> "L")
    @@ ("m" :> "M") @@ ("n" :> "N") @@ ("o" :> "O") @@ ("p" :> "P") @@ ("q" :> "Q") @@ ("r" :> "R")
    @@ ("s" :> "S") @@ ("t" :> "T") @@ ("u" :> "U") @@ ("v" :> "V") @@ ("w" :> "W") @@ ("x" :> "X")
    @@ ("y" :> "Y") @@ ("z" :> "Z")

Upper(c) == IF c \in DOMAIN ToUpper THEN ToUpper[c] ELSE c

UpperWord(w) == [k \in 1..Len(w) |-> Upper(w[k])]

\* keywords are matched without regard to case
Keywords ==
    (<<"A", "N", "D">> :> "AND")
    @@ (<<"O", "R">> :> "OR")
    @@ (<<"I", "N">> :> "IN")
    @@ (<<"I", "S">> :> "IS")
    @@ (<<"C", "A", "S", "T">> :> "CAST")
    @@ (<<"A", "S">> :> "AS")
    @@ (<<"T", "R", "U", "E">> :> "TRUE")
    @@ (<<"F", "A", "L", "S", "E">> :> "FALSE")
    @@ (<<"N", "U", "L", "L">> :> "NULL")
    @@ (<<"B", "Y", "T", "E", "S">> :> "TYPEBYTES")
    @@ (<<"S", "T", "R", "I", "N", "G">> :> "TYPESTRING")
    @@ (<<"B", "O", "O", "L">> :> "TYPEBOOL")
    @@ (<<"I", "N", "T", "8">> :> "TYPEINT8")
    @@ (<<"I", "N", "T", "1", "6">> :> "TYPEINT16")
    @@ (<<"I", "N", "T", "3", "2">> :> "TYPEINT32")
    @@ (<<"I", "N", "T", "6", "4">> :> "TYPEINT64")
    @@ (<<"I", "N", "T">> :> "TYPEINT")
    @@ (<<"I", "N", "T", "E", "G", "E", "R">> :> "TYPEINTEGER")
    @@ (<<"F", "L", "O", "A", "T", "6", "4">> :> "TYPEFLOAT64")
    @@ (<<"N", "U", "M", "E", "R", "I", "C">> :> "TYPENUMERIC")
    @@ (<<"T", "E", "X", "T">> :> "TYPETEXT")
    @@ (<<"D", "U", "R", "A", "T", "I", "O", "N">> :> "TYPEDURATION")

Symbols ==
    ("(" :> "LPAREN") @@ (")" :> "RPAREN") @@ ("[" :> "LSBRACKET")
    @@ ("]" :> "RSBRACKET") @@ ("{" :> "LBRACKET") @@ ("}" :> "RBRACKET")
    @@ ("," :> "COMMA") @@ (":" :> "COLON") @@ ("+" :> "ADD")
    @@ ("*" :> "MUL") @@ ("/" :> "DIV") @@ ("%" :> "MOD")
    @@ ("&" :> "BITWISEAND") @@ ("|" :> "BITWISEOR") @@ ("^" :> "BITWISEXOR")
    @@ ("=" :> "EQ") @@ ("<" :> "LT") @@ (">" :> "GT")
    @@ ("?" :> "POSITIONALPARAM")

TwoCharSymbols ==
    (<<"<", "=">> :> "LTE") @@ (<<">", "=">> :> "GTE") @@ (<<"!", "=">> :> "NEQ")

Quotes == {"'", "\""}

\* the characters the scanner below is written for
Alphabet ==
    WhiteSpace \cup Letters \cup Digits \cup Quotes \cup DOMAIN Symbols
    \cup {"_", ".", "$", "!", "-"}

WordToken(w) ==
    IF UpperWord(w) \in DOMAIN Keywords
    THEN Token(Keywords[UpperWord(w)], w, w)
    ELSE Token("IDENT", w, w)

\* the number that starts at cs[k] and has its first digit at cs[d]: a minus
\* sign that a digit follows belongs to the number
NumberToken(cs, k, d) ==
    LET n == Len(cs)
        e == Span(cs, d, Digits)
    IN  IF e <= n /\ cs[e] = "."
        THEN LET f == Span(cs, e + 1, Digits)
             IN  Token("NUMBER", Sub(cs, k, f - 1), Sub(cs, k, f - 1))
        ELSE IF e <= n /\ cs[e] \in Letters
        THEN LET f == Span(cs, e, Letters \cup Digits)
             IN  Token("DURATION", Sub(cs, k, f - 1), Sub(cs, k, f - 1))
        ELSE Token("INTEGER", Sub(cs, k, e - 1), Sub(cs, k, e - 1))

\* the token starting at cs[k]; k <= Len(cs)
ScanToken(cs, k) ==
    LET c == cs[k]
        n == Len(cs)
        next == IF k < n THEN cs[k + 1] ELSE ""
    IN  CASE c \in WhiteSpace ->
               LET e == Span(cs, k, WhiteSpace)
               IN  Token("WS", Sub(cs, k, e - 1), Sub(cs, k, e - 1))
          [] c \in IdentStart ->
               WordToken(Sub(cs, k, Span(cs, k, IdentChars) - 1))
          [] c \in Digits -> NumberToken(cs, k, k)
          [] c = "-" ->
               IF next \in Digits THEN NumberToken(cs, k, k + 1)
               ELSE Token("SUB", <<>>, <<c>>)
          [] c = "." ->
               IF next \in Digits
               THEN LET e == Span(cs, k + 1, Digits)
                    IN  Token("NUMBER", Sub(cs, k, e - 1), Sub(cs, k, e - 1))
               ELSE Token("DOT", <<>>, <<c>>)
          [] c = "$" ->
               LET e == Span(cs, k + 1, IdentChars)
               IN  Token("NAMEDPARAM", Sub(cs, k, e - 1), Sub(cs, k, e - 1))
          [] c \in Quotes ->
               LET e == Span(cs, k + 1, Alphabet \ {c})
               IN  IF e <= n
                   THEN Token("STRING", Sub(cs, k + 1, e - 1), Sub(cs, k, e))
                   ELSE Token("BADSTRING", Sub(cs, k + 1, n), Sub(cs, k, n))
          [] <<c, next>> \in DOMAIN TwoCharSymbols ->
               Token(TwoCharSymbols[<<c, next>>], <<>>, <<c, next>>)
          [] c \in DOMAIN Symbols ->
               Token(Symbols[c], <<>>, <<c>>)
          [] OTHER -> Token("ILLEGAL", <<c>>, <<c>>)

RECURSIVE ScanFrom(_, _)
ScanFrom(cs, k) ==
    IF k > Len(cs)
    THEN <<>>
    ELSE LET ti == ScanToken(cs, k)
         IN  <<ti>> \o ScanFrom(cs, k + Len(ti.raw))

\* every token of the source string, in order; EOF follows them for ever
ScanAll(cs) == ScanFrom(cs, 1)

----------------------------------------------------------------------------
(* The Parser and its token source: Scan, Unscan, ScanIgnoreWhitespace and *)
(* the capture buffer.                                                     *)

NewParser(cs) ==
    [toks |-> ScanAll(cs),  \* the scanner's token stream
     i |-> 0,               \* tokens read from the scanner so far
     n |-> 0,               \* tokens pushed back and not yet read again
     bufOn |-> FALSE,       \* p.buf != nil
     buf |-> <<>>,          \* p.buf, the capture buffer
     namedParams |-> 0,
     orderedParams |-> 0,
     panic |-> FALSE,       \* a run-time panic was raised
     hist |-> <<>>,         \* history: the states the parser went through
     dropped |-> FALSE,     \* history: a failed element was passed over
     reread |-> <<>>,       \* history: identifiers pushed back, and what
                            \* was to be read next
     entered |-> <<>>]      \* history: per ParseExpr entered, whether it
                            \* made a new buffer

Snapshot(q) ==
    [pos |-> q.i - q.n, n |-> q.n, bufOn |-> q.bufOn,
     namedParams |-> q.namedParams, orderedParams |-> q.orderedParams]

Log(q) == [q EXCEPT !.hist = Append(@, Snapshot(q))]

TokenAt(q, k) ==
    IF k < 1 THEN NoToken
    ELSE IF k > Len(q.toks) THEN EOFToken
    ELSE q.toks[k]

\* the number of tokens handed out and not pushed back
Position(q) == q.i - q.n

\* the token most recently returned
Curr(q) == TokenAt(q, Position(q))

\* history: a token other than whitespace was read after position start and
\* is not pushed back
ConsumedSince(q, start) ==
    \E k \in (start + 1)..Position(q) : TokenAt(q, k).tok \notin {"WS", "COMMENT"}

\* history: the loop of a list or of a document leaves a failed element
\* behind; note whether tokens of it stay read
Abandon(q, start) ==
    IF ConsumedSince(q, start) THEN [q EXCEPT !.dropped = TRUE] ELSE q

\* the next token, whitespace included; it is mirrored into the capture
\* buffer when the buffer is enabled
Scan(q) ==
    LET q1 == IF q.n > 0 THEN [q EXCEPT !.n = @ - 1] ELSE [q EXCEPT !.i = @ + 1]
        ti == Curr(q1)
        q2 == IF q1.bufOn THEN [q1 EXCEPT !.buf = @ \o ti.raw] ELSE q1
    IN  [p |-> Log(q2), ti |-> ti]

\* push the most recent token back, and take its text off the capture buffer
Unscan(q) ==
    LET raw == Curr(q).raw
        q1 == IF ~q.bufOn THEN q
              ELSE IF Len(raw) > Len(q.buf)
              THEN [q EXCEPT !.buf = <<>>, !.panic = TRUE]
              ELSE [q EXCEPT !.buf = Sub(@, 1, Len(@) - Len(raw))]
    IN  Log([q1 EXCEPT !.n = @ + 1])

RECURSIVE ScanIgnoreWhitespace(_)
\* the next token that is neither whitespace nor a comment
ScanIgnoreWhitespace(q) ==
    LET s == Scan(q)
    IN  IF s.ti.tok \in {"WS", "COMMENT"} THEN ScanIgnoreWhitespace(s.p) ELSE s

RECURSIVE TrimLeft(_)
TrimLeft(cs) ==
    IF cs # <<>> /\ Head(cs) \in WhiteSpace THEN TrimLeft(Tail(cs)) ELSE cs

RECURSIVE TrimRight(_)
TrimRight(cs) ==
    IF cs # <<>> /\ cs[Len(cs)] \in WhiteSpace
    THEN TrimRight(Sub(cs, 1, Len(cs) - 1))
    ELSE cs

\* strings.TrimSpace
TrimSpace(cs) == TrimRight(TrimLeft(cs))

----------------------------------------------------------------------------
(* Tokens: operators and their precedence *)

Operators ==
    {"ADD", "SUB", "MUL", "DIV", "MOD", "BITWISEAND", "BITWISEOR",
     "BITWISEXOR", "AND", "OR", "EQ", "NEQ", "LT", "LTE", "GT", "GTE",
     "IN", "IS"}

IsOperator(tok) == tok \in Operators

\* a higher number binds tighter
Precedence(tok) ==
    CASE tok \in {"MUL", "DIV", "MOD"} -> 6
      [] tok \in {"ADD", "SUB"} -> 5
      [] tok \in {"BITWISEAND", "BITWISEOR", "BITWISEXOR"} -> 4
      [] tok \in {"EQ", "NEQ", "LT", "LTE", "GT", "GTE", "IN", "IS"} -> 3
      [] tok = "AND" -> 2
      [] tok = "OR" -> 1
      [] OTHER -> 0

----------------------------------------------------------------------------
(* Expression nodes *)

IntValue(v) == [t |-> "int", v |-> v]

Float64Value(v) == [t |-> "float", v |-> v]

TextValue(s) == [t |-> "text", v |-> s]

BoolValue(b) == [t |-> "bool", v |-> b]

NullValue == [t |-> "null"]

DurationValue(d) == [t |-> "duration", v |-> d]

FieldSelector(field) == [t |-> "field", path |-> field]

NamedParam(name) == [t |-> "named", name |-> name]

PositionalParam(k) == [t |-> "positional", index |-> k]

KVPair(k, v) == [K |-> k, V |-> v]

KVPairs(pairs) == [t |-> "document", pairs |-> pairs]

LiteralExprList(list) == [t |-> "list", list |-> list]

Cast(e, tp) == [t |-> "cast", e |-> e, to |-> tp]

\* a binary operator node; the dummy root is NewCmpOp(nil, nil, 0)
NewCmpOp(l, r, tok) == [t |-> "op", op |-> tok, l |-> l, r |-> r]

\* whether the expression implements the operator interface
IsOperatorNode(e) == e.t = "op"

opToExpr(op, lhs, rhs) == NewCmpOp(lhs, rhs, op)

\* a call result: the parser after the call, the expression and the error
\* message ("" is no error)
Ok(q, e) == [p |-> q, e |-> e, err |-> ""]

Err(q, msg) == [p |-> q, e |-> Nil, err |-> msg]

ErrExpected == "expected"

ErrMissingName == "missing param name"

ErrMix == "can't mix positional arguments with named arguments"

----------------------------------------------------------------------------
(* Conversions of literals *)

DigitValue ==
    ("0" :> 0) @@ ("1" :> 1) @@ ("2" :> 2) @@ ("3" :> 3) @@ ("4" :> 4)
    @@ ("5" :> 5) @@ ("6" :> 6) @@ ("7" :> 7) @@ ("8" :> 8) @@ ("9" :> 9)

RECURSIVE StripZeros(_)
\* a number's digits without leading zeros
StripZeros(d) ==
    IF d = <<>> THEN <<"0">>
    ELSE IF Len(d) > 1 /\ Head(d) = "0" THEN StripZeros(Tail(d))
    ELSE d

RECURSIVE StripTrailingZeros(_)
StripTrailingZeros(d) ==
    IF d # <<>> /\ d[Len(d)] = "0"
    THEN StripTrailingZeros(Sub(d, 1, Len(d) - 1))
    ELSE d

\* a <= b for two digit strings of the same length: they are equal, or a
\* has the smaller digit where they first differ
DigitsLE(a, b) ==
    \/ a = b
    \/ \E j \in 1..Len(a) :
          /\ DigitValue[a[j]] < DigitValue[b[j]]
          /\ \A i \in 1..(j - 1) : a[i] = b[i]

\* 2^63 - 1
MaxInt64Digits ==
    <<"9", "2", "2", "3", "3", "7", "2", "0", "3", "6",
      "8", "5", "4", "7", "7", "5", "8", "0", "7">>

\* 2^63
MinInt64Digits ==
    <<"9", "2", "2", "3", "3", "7", "2", "0", "3", "6",
      "8", "5", "4", "7", "7", "5", "8", "0", "8">>

\* 2^1024 - 2^970: a magnitude from here on rounds beyond the largest float64
FloatOverflowDigits ==
    <<"1", "7", "9", "7", "6", "9", "3", "1", "3", "4", "8", "6", "2", "3", "1", "5",
      "8", "0", "7", "9", "3", "7", "2", "8", "9", "7", "1", "4", "0", "5", "3", "0",
      "3", "4", "1", "5", "0", "7", "9", "9", "3", "4", "1", "3", "2", "7", "1", "0",
      "0", "3", "7", "8", "2", "6", "9", "3", "6", "1", "7", "3", "7", "7", "8", "9",
      "8", "0", "4", "4", "4", "9", "6", "8", "2", "9", "2", "7", "6", "4", "7", "5",
      "0", "9", "4", "6", "6", "4", "9", "0", "1", "7", "9", "7", "7", "5", "8", "7",
      "2", "0", "7", "0", "9", "6", "3", "3", "0", "2", "8", "6", "4", "1", "6", "6",
      "9", "2", "8", "8", "7", "9", "1", "0", "9", "4", "6", "5", "5", "5", "5", "4",
      "7", "8", "5", "1", "9", "4", "0", "4", "0", "2", "6", "3", "0", "6", "5", "7",
      "4", "8", "8", "6", "7", "1", "5", "0", "5", "8", "2", "0", "6", "8", "1", "9",
      "0", "8", "9", "0", "2", "0", "0", "0", "7", "0", "8", "3", "8", "3", "6", "7",
      "6", "2", "7", "3", "8", "5", "4", "8", "4", "5", "8", "1", "7", "7", "1", "1",
      "5", "3", "1", "7", "6", "4", "4", "7", "5", "7", "3", "0", "2", "7", "0", "0",
      "6", "9", "8", "5", "5", "5", "7", "1", "3", "6", "6", "9", "5", "9", "6", "2",
      "2", "8", "4", "2", "9", "1", "4", "8", "1", "9", "8", "6", "0", "8", "3", "4",
      "9", "3", "6", "4", "7", "5", "2", "9", "2", "7", "1", "9", "0", "7", "4", "1",
      "6", "8", "4", "4", "4", "3", "6", "5", "5", "1", "0", "7", "0", "4", "3", "4",
      "2", "7", "1", "1", "5", "5", "9", "6", "9", "9", "5", "0", "8", "0", "9", "3",
      "0", "4", "2", "8", "8", "0", "1", "7", "7", "9", "0", "4", "1", "7", "4", "4",
      "9", "7", "7", "9", "2">>

Negative(lit) == lit # <<>> /\ lit[1] = "-"

\* a literal without its sign
Unsigned(lit) ==
    IF lit # <<>> /\ lit[1] \in {"-", "+"} THEN Tail(lit) ELSE lit

\* the digits d with the sign of the literal; zero has none
Signed(lit, d) ==
    IF Negative(lit) /\ d # <<"0">> THEN <<"-">> \o d ELSE d

\* the magnitude d, without leading zeros, is at most the magnitude limit
AtMost(d, limit) ==
    Len(d) < Len(limit) \/ (Len(d) = Len(limit) /\ DigitsLE(d, limit))

\* strconv.Atoi of a digit string with an optional sign: the value, as its
\* sign and digits, and whether it fits a signed 64-bit integer
Atoi(lit) ==
    LET body == Unsigned(lit)
        d == StripZeros(body)
        digits == body # <<>> /\ \A k \in 1..Len(body) : body[k] \in Digits
    IN  [v |-> Signed(lit, d),
         ok |-> digits /\ AtMost(d, IF Negative(lit) THEN MinInt64Digits
                                    ELSE MaxInt64Digits)]

\* strconv.ParseFloat of digits with an optional sign and decimal point: the
\* value as its sign, integer and fraction digits (the rounding to 64 bits is
\* left out), and whether it is well formed and within the float64 range
ParseFloat(lit) ==
    LET body == Unsigned(lit)
        dot == Span(body, 1, Digits)
        int == StripZeros(Sub(body, 1, dot - 1))
        frac == Sub(body, dot + 1, Len(body))
        wellFormed ==
            /\ body # <<>>
            /\ dot > Len(body) \/ body[dot] = "."
            /\ \A k \in 1..Len(frac) : frac[k] \in Digits
            /\ dot > 1 \/ frac # <<>>
        inRange == ~AtMost(FloatOverflowDigits, int)
    IN  [v |-> [neg |-> Negative(lit), int |-> int,
                frac |-> StripTrailingZeros(frac)],
         ok |-> wellFormed /\ inRange]

DurationUnits ==
    {<<"n", "s">>, <<"u", "s">>, <<"m", "s">>, <<"s">>, <<"m">>, <<"h">>}

RECURSIVE ParseDurationFrom(_, _)
ParseDurationFrom(lit, k) ==
    IF k > Len(lit) THEN [v |-> <<>>, ok |-> TRUE]
    ELSE LET e == Span(lit, k, Digits)
             f == Span(lit, e, Letters)
             unit == Sub(lit, e, f - 1)
             rest == ParseDurationFrom(lit, f)
         IN  IF e = k \/ unit \notin DurationUnits \/ ~rest.ok
             THEN [v |-> <<>>, ok |-> FALSE]
             ELSE [v |-> <<[n |-> StripZeros(Sub(lit, k, e - 1)), unit |-> unit]>>
                         \o rest.v,
                   ok |-> TRUE]

\* time.ParseDuration: a sequence of numbers, each with a unit
ParseDuration(lit) ==
    IF Unsigned(lit) = <<>> THEN [v |-> <<>>, ok |-> FALSE]
    ELSE [v |-> [neg |-> Negative(lit), parts |-> ParseDurationFrom(Unsigned(lit), 1).v],
          ok |-> ParseDurationFrom(Unsigned(lit), 1).ok]

----------------------------------------------------------------------------
(* The function registry *)

PKFunc == [t |-> "pk"]

Function(name, args) == [t |-> "func", name |-> name, args |-> args]

\* the registered functions and the numbers of arguments each takes
Functions ==
    (<<"p", "k">> :> {0}) @@ (<<"f">> :> {1, 2})

GetFunc(q, fname, args) ==
    IF fname \notin DOMAIN Functions THEN Err(q, "no such function")
    ELSE IF Len(args) \notin Functions[fname] THEN Err(q, "wrong number of arguments")
    ELSE IF fname = <<"p", "k">> THEN Ok(q, PKFunc)
    ELSE Ok(q, Function(fname, args))

----------------------------------------------------------------------------
(* expr.go.  Each function is an operator from the parser to a result; the *)
(* operators named After... continue a function with what a call returned. *)

RECURSIVE ParseExpr(_)
RECURSIVE ClimbLoop(_, _, _)
RECURSIVE parseUnaryExpr(_)
RECURSIVE parseDocument(_)
RECURSIVE KVLoop(_, _)
RECURSIVE parseKV(_)
RECURSIVE parseExprList(_, _, _)
RECURSIVE ExprListLoop(_, _, _)
RECURSIVE parseFunction(_)
RECURSIVE FunctionArgsLoop(_, _, _)
RECURSIVE parseCastExpression(_)
RECURSIVE FieldRefLoop(_, _)

\* history: a ParseExpr was entered, and made a new buffer or did not
Entered(q, own) == [q EXCEPT !.entered = Append(@, own)]

\* EnterExpr without the test p.buf == nil: every call makes a buffer of its
\* own and drops it on return
EnterExprAlways(q) ==
    [own |-> TRUE,
     p |-> Log(Entered([q EXCEPT !.bufOn = TRUE, !.buf = <<>>], TRUE))]

\* ParseExpr enables the capture buffer when it is off, and then owns it
EnterExpr(q) ==
    IF ~q.bufOn
    THEN [own |-> TRUE,
          p |-> Log(Entered([q EXCEPT !.bufOn = TRUE, !.buf = <<>>], TRUE))]
    ELSE [own |-> FALSE, p |-> Entered(q, FALSE)]

\* LeaveExpr without the deferred p.buf = nil: the buffer outlives the call
LeaveExprKeepsBuffer(q, own) == q

\* the deferred p.buf = nil of the call that enabled the buffer
LeaveExpr(q, own) ==
    IF own THEN Log([q EXCEPT !.bufOn = FALSE, !.buf = <<>>]) ELSE q

\* SpliceHere with the comparison the wrong way round: a looser operator is
\* put under a tighter one
SpliceHereReversed(rh, op) ==
    ~IsOperatorNode(rh) \/ Precedence(rh.op) <= Precedence(op)

\* SpliceHere with > for >=: operators of one tier no longer group to the left
SpliceHereStrict(rh, op) ==
    ~IsOperatorNode(rh) \/ Precedence(rh.op) > Precedence(op)

\* whether the new operator is added at this node: its right-hand side is no
\* operator, or an operator of precedence >= the one being added
SpliceHere(rh, op) ==
    ~IsOperatorNode(rh) \/ Precedence(rh.op) >= Precedence(op)

RECURSIVE Insert(_, _, _)
\* descend the right-hand sides from node to the place of the new operator
Insert(node, op, rhs) ==
    IF SpliceHere(node.r, op)
    THEN [node EXCEPT !.r = opToExpr(op, node.r, rhs)]
    ELSE [node EXCEPT !.r = Insert(node.r, op, rhs)]

\* the literal of the expression: the trimmed capture buffer
Literal(q) == TrimSpace(q.buf)

\* return nil, "", err
FailExpr(r, own) ==
    [p |-> LeaveExpr(r.p, own), e |-> Nil, lit |-> <<>>, err |-> r.err]

\* ReturnExpr returning the root itself, not its right-hand side
ReturnExprWithRoot(q, root, own) ==
    [p |-> LeaveExpr(q, own), e |-> root, lit |-> Literal(q), err |-> ""]

\* return root.RightHand(), strings.TrimSpace(p.buf.String()), nil
ReturnExpr(q, root, own) ==
    [p |-> LeaveExpr(q, own), e |-> root.r, lit |-> Literal(q), err |-> ""]

AfterRightHand(r, op, root, own) ==
    IF r.err # "" THEN FailExpr(r, own)
    ELSE ClimbLoop(r.p, Insert(root, op, r.e), own)

AfterOperator(s, root, own) ==
    IF ~IsOperator(s.ti.tok)
    THEN ReturnExpr(Unscan(s.p), root, own)
    ELSE AfterRightHand(parseUnaryExpr(s.p), s.ti.tok, root, own)

\* Loop over operations and unary exprs and build a tree based on precedence.
ClimbLoop(q, root, own) == AfterOperator(ScanIgnoreWhitespace(q), root, own)

AfterFirstUnary(r, own) ==
    IF r.err # "" THEN FailExpr(r, own)
    ELSE ClimbLoop(r.p, NewCmpOp(Nil, r.e, "ILLEGAL"), own)

AfterEnter(en) == AfterFirstUnary(parseUnaryExpr(en.p), en.own)

\* ParseExpr parses an expression.
ParseExpr(q) == AfterEnter(EnterExpr(q))

IdentOf(s) ==
    IF s.ti.tok # "IDENT" THEN Err(s.p, ErrExpected) ELSE Ok(s.p, s.ti.lit)

\* parseIdent parses an identifier.
parseIdent(q) == IdentOf(ScanIgnoreWhitespace(q))

AfterDot(s2, fieldRef) ==
    IF s2.ti.tok # "IDENT"
    THEN Err(s2.p, ErrExpected)
    ELSE FieldRefLoop(s2.p, Append(fieldRef, s2.ti.lit))

AfterChunk(s, fieldRef) ==
    CASE s.ti.tok = "DOT" -> AfterDot(Scan(s.p), fieldRef)
      [] s.ti.tok = "NUMBER" ->
           IF s.ti.lit[1] # "."
           THEN Ok(Unscan(s.p), fieldRef)
           ELSE FieldRefLoop(s.p, Append(fieldRef, Tail(s.ti.lit)))
      [] OTHER -> Ok(Unscan(s.p), fieldRef)

\* FieldRefLoop reading its token with ScanIgnoreWhitespace: white space
\* before a dot no longer ends the path
FieldRefLoopSkipsBlanks(q, fieldRef) ==
    AfterChunk(ScanIgnoreWhitespace(q), fieldRef)

FieldRefLoop(q, fieldRef) == AfterChunk(Scan(q), fieldRef)

AfterFirstChunk(chunk) ==
    IF chunk.err # "" THEN chunk ELSE FieldRefLoop(chunk.p, <<chunk.e>>)

\* parseFieldRef parses a field reference in the form ident (.ident|integer)*
parseFieldRef(q) == AfterFirstChunk(parseIdent(q))

\* MixesWithOrdered without its test: a named parameter is taken after a
\* positional one
MixesWithOrderedUnchecked(q) == FALSE

\* a named parameter may not follow a positional one
MixesWithOrdered(q) == q.orderedParams > 0

\* a positional parameter may not follow a named one
MixesWithNamed(q) == q.namedParams > 0

\* ParseNamedParam with p.namedParams++ moved before the two tests
ParseNamedParamCountsFirst(q, lit) ==
    IF Len(lit) = 1
    THEN Err(Log([q EXCEPT !.namedParams = @ + 1]), ErrMissingName)
    ELSE IF MixesWithOrdered(q)
    THEN Err(Log([q EXCEPT !.namedParams = @ + 1]), ErrMix)
    ELSE Ok(Log([q EXCEPT !.namedParams = @ + 1]), NamedParam(Tail(lit)))

\* the NAMEDPARAM case of parseUnaryExpr and parseParam
ParseNamedParam(q, lit) ==
    IF Len(lit) = 1 THEN Err(q, ErrMissingName)
    ELSE IF MixesWithOrdered(q) THEN Err(q, ErrMix)
    ELSE Ok(Log([q EXCEPT !.namedParams = @ + 1]), NamedParam(Tail(lit)))

\* p.orderedParams++ and the node that carries the counter
CountPositional(q) == Ok(q, PositionalParam(q.orderedParams))

\* the POSITIONALPARAM case of parseUnaryExpr and parseParam
ParsePositionalParam(q) ==
    IF MixesWithNamed(q) THEN Err(q, ErrMix)
    ELSE CountPositional(Log([q EXCEPT !.orderedParams = @ + 1]))

\* ParseInteger without the second attempt as a float
ParseIntegerNoRetry(q, lit) ==
    IF Atoi(lit).ok THEN Ok(q, IntValue(Atoi(lit).v))
    ELSE Err(q, "unable to parse integer")

\* the INTEGER case of parseUnaryExpr
ParseInteger(q, lit) ==
    IF Atoi(lit).ok THEN Ok(q, IntValue(Atoi(lit).v))
    ELSE IF ParseFloat(lit).ok THEN Ok(q, Float64Value(ParseFloat(lit).v))
    ELSE Err(q, "unable to parse integer")

\* the NUMBER case of parseUnaryExpr
ParseNumber(q, lit) ==
    IF ~ParseFloat(lit).ok THEN Err(q, "unable to parse number")
    ELSE Ok(q, Float64Value(ParseFloat(lit).v))

\* the DURATION case of parseUnaryExpr
ParseDurationLiteral(q, lit) ==
    IF ~ParseDuration(lit).ok THEN Err(q, "unable to parse duration")
    ELSE Ok(q, DurationValue(ParseDuration(lit).v))

FieldSelectorOf(field) ==
    IF field.err # "" THEN field ELSE Ok(field.p, FieldSelector(field.e))

\* e, _, err := p.parseDocument(); return e, err
DocumentOf(d) == [p |-> d.p, e |-> d.e, err |-> d.err]

\* history: the identifier that was pushed back, and the token that the
\* next ScanIgnoreWhitespace returns
Reread(q, ident) ==
    [q EXCEPT !.reread = Append(@, [ident |-> ident,
                                    next |-> ScanIgnoreWhitespace(q).ti])]

\* AfterIdent with one Unscan where the code has two
AfterIdentOneUnscan(s1, ident) ==
    IF s1.ti.tok = "LPAREN"
    THEN parseFunction(Reread(Unscan(s1.p), ident))
    ELSE FieldSelectorOf(parseFieldRef(Reread(Unscan(s1.p), ident)))

\* the IDENT case: a function when the very next token is a left
\* parenthesis, a field reference otherwise; both read the identifier again
AfterIdent(s1, ident) ==
    IF s1.ti.tok = "LPAREN"
    THEN parseFunction(Reread(Unscan(Unscan(s1.p)), ident))
    ELSE FieldSelectorOf(parseFieldRef(Reread(Unscan(Unscan(s1.p)), ident)))

UnaryOf(s) ==
    CASE s.ti.tok = "CAST" -> parseCastExpression(Unscan(s.p))
      [] s.ti.tok = "IDENT" -> AfterIdent(Scan(s.p), s.ti)
      [] s.ti.tok = "NAMEDPARAM" -> ParseNamedParam(s.p, s.ti.lit)
      [] s.ti.tok = "POSITIONALPARAM" -> ParsePositionalParam(s.p)
      [] s.ti.tok = "STRING" -> Ok(s.p, TextValue(s.ti.lit))
      [] s.ti.tok = "NUMBER" -> ParseNumber(s.p, s.ti.lit)
      [] s.ti.tok = "INTEGER" -> ParseInteger(s.p, s.ti.lit)
      [] s.ti.tok \in {"TRUE", "FALSE"} -> Ok(s.p, BoolValue(s.ti.tok = "TRUE"))
      [] s.ti.tok = "NULL" -> Ok(s.p, NullValue)
      [] s.ti.tok = "DURATION" -> ParseDurationLiteral(s.p, s.ti.lit)
      [] s.ti.tok = "LBRACKET" -> DocumentOf(parseDocument(Unscan(s.p)))
      [] s.ti.tok \in {"LSBRACKET", "LPAREN"} ->
           parseExprList(Unscan(s.p), s.ti.tok,
                         IF s.ti.tok = "LPAREN" THEN "RPAREN" ELSE "RSBRACKET")
      [] OTHER -> Err(s.p, ErrExpected)

\* parseUnaryExpr parses an non-binary expression.
parseUnaryExpr(q) == UnaryOf(ScanIgnoreWhitespace(q))

ParamOf(s) ==
    CASE s.ti.tok = "NAMEDPARAM" -> ParseNamedParam(s.p, s.ti.lit)
      [] s.ti.tok = "POSITIONALPARAM" -> ParsePositionalParam(s.p)
      [] OTHER -> Ok(s.p, Nil)

\* parseParam parses a positional or named param.
parseParam(q) == ParamOf(ScanIgnoreWhitespace(q))

TypeOf ==
    ("TYPEBYTES" :> "BlobValue") @@ ("TYPESTRING" :> "TextValue")
    @@ ("TYPEBOOL" :> "BoolValue") @@ ("TYPEINT8" :> "Int8Value")
    @@ ("TYPEINT16" :> "Int16Value") @@ ("TYPEINT32" :> "Int32Value")
    @@ ("TYPEINT64" :> "Int64Value") @@ ("TYPEINT" :> "Int64Value")
    @@ ("TYPEINTEGER" :> "Int64Value") @@ ("TYPEFLOAT64" :> "Float64Value")
    @@ ("TYPENUMERIC" :> "Float64Value") @@ ("TYPETEXT" :> "TextValue")
    @@ ("TYPEDURATION" :> "DurationValue")

TypeTokenOf(s) ==
    IF s.ti.tok \in DOMAIN TypeOf
    THEN [p |-> s.p, tp |-> TypeOf[s.ti.tok]]
    ELSE [p |-> Unscan(s.p), tp |-> ""]

\* parseType: the value type of the next token, or "" (0) with the token
\* pushed back
parseType(q) == TypeTokenOf(ScanIgnoreWhitespace(q))

\* AppendPair as a map would do it: a pair takes the place of an earlier pair
\* of the same key
AppendPairByKey(pairs, pair) ==
    IF \E k \in 1..Len(pairs) : pairs[k].K = pair.K
    THEN [k \in 1..Len(pairs) |-> IF pairs[k].K = pair.K THEN pair ELSE pairs[k]]
    ELSE Append(pairs, pair)

\* pairs = append(pairs, pair)
AppendPair(pairs, pair) == Append(pairs, pair)

AfterPairs(s, pairs) ==
    IF s.ti.tok # "RBRACKET"
    THEN [p |-> s.p, e |-> Nil, found |-> TRUE, err |-> ErrExpected]
    ELSE [p |-> s.p, e |-> KVPairs(pairs), found |-> TRUE, err |-> ""]

\* Parse required } token.
CloseDocument(q, pairs) == AfterPairs(ScanIgnoreWhitespace(q), pairs)

AfterPair(s, pairs) ==
    IF s.ti.tok # "COMMA"
    THEN CloseDocument(Unscan(s.p), pairs)
    ELSE KVLoop(s.p, pairs)

AfterKV(r, start, pairs) ==
    IF r.err # ""
    THEN CloseDocument(Abandon(Unscan(r.p), start), pairs)
    ELSE AfterPair(ScanIgnoreWhitespace(r.p), AppendPair(pairs, r.e))

\* Parse kv pairs.
KVLoop(q, pairs) == AfterKV(parseKV(q), Position(q), pairs)

AfterLeftBracket(s) ==
    IF s.ti.tok # "LBRACKET"
    THEN [p |-> Unscan(s.p), e |-> Nil, found |-> FALSE, err |-> ""]
    ELSE KVLoop(s.p, <<>>)

\* parseDocument parses a document
parseDocument(q) == AfterLeftBracket(ScanIgnoreWhitespace(q))

AfterValue(r, k) ==
    IF r.err # "" THEN Err(r.p, r.err) ELSE Ok(r.p, KVPair(k, r.e))

AfterKey(s2, k) ==
    IF s2.ti.tok # "COLON"
    THEN Err(Unscan(s2.p), ErrExpected)
    ELSE AfterValue(ParseExpr(s2.p), k)

KeyOf(s) ==
    IF s.ti.tok \notin {"IDENT", "STRING"}
    THEN Err(s.p, ErrExpected)
    ELSE AfterKey(ScanIgnoreWhitespace(s.p), s.ti.lit)

\* parseKV parses a key-value pair in the form IDENT : Expr.
parseKV(q) == KeyOf(ScanIgnoreWhitespace(q))

AfterList(s, exprList, rightToken) ==
    IF s.ti.tok # rightToken
    THEN Err(s.p, ErrExpected)
    ELSE Ok(s.p, LiteralExprList(exprList))

\* Parse required ) or ] token.
CloseExprList(q, exprList, rightToken) ==
    AfterList(ScanIgnoreWhitespace(q), exprList, rightToken)

AfterElement(s, exprList, rightToken) ==
    IF s.ti.tok # "COMMA"
    THEN CloseExprList(Unscan(s.p), exprList, rightToken)
    ELSE ExprListLoop(s.p, exprList, rightToken)

AfterListExpr(r, start, exprList, rightToken) ==
    IF r.err # ""
    THEN CloseExprList(Abandon(Unscan(r.p), start), exprList, rightToken)
    ELSE AfterElement(ScanIgnoreWhitespace(r.p), Append(exprList, r.e),
                      rightToken)

\* Parse expressions.
ExprListLoop(q, exprList, rightToken) ==
    AfterListExpr(ParseExpr(q), Position(q), exprList, rightToken)

AfterLeftToken(s, leftToken, rightToken) ==
    IF s.ti.tok # leftToken
    THEN Err(s.p, ErrExpected)
    ELSE ExprListLoop(s.p, <<>>, rightToken)

parseExprList(q, leftToken, rightToken) ==
    AfterLeftToken(ScanIgnoreWhitespace(q), leftToken, rightToken)

AfterArgument(s, fname, exprs) ==
    IF s.ti.tok # "COMMA"
    THEN GetFunc(Unscan(s.p), fname, exprs)
    ELSE FunctionArgsLoop(s.p, fname, exprs)

AfterArgumentExpr(r, fname, exprs) ==
    IF r.err # ""
    THEN Err(r.p, r.err)
    ELSE AfterArgument(ScanIgnoreWhitespace(r.p), fname, Append(exprs, r.e))

\* Parse expressions.
FunctionArgsLoop(q, fname, exprs) ==
    AfterArgumentExpr(ParseExpr(q), fname, exprs)

\* Check if the function is called without arguments.
AfterFunctionParen(s2, fname) ==
    IF s2.ti.tok = "RPAREN"
    THEN GetFunc(s2.p, fname, <<>>)
    ELSE FunctionArgsLoop(Unscan(s2.p), fname, <<>>)

\* Parse required ( token.
AfterFunctionName(s, fname) ==
    IF s.ti.tok # "LPAREN" THEN Err(s.p, ErrExpected)
    ELSE AfterFunctionParen(ScanIgnoreWhitespace(s.p), fname)

FunctionNameOf(fname) ==
    IF fname.err # "" THEN fname
    ELSE AfterFunctionName(ScanIgnoreWhitespace(fname.p), fname.e)

\* parseFunction parses a function call.
parseFunction(q) == FunctionNameOf(parseIdent(q))

\* Parse required ) token.
AfterCastType(s4, e, tp) ==
    IF s4.ti.tok # "RPAREN" THEN Err(s4.p, ErrExpected)
    ELSE Ok(s4.p, Cast(e, tp))

\* Parse require typename.
AfterType(tp, e) ==
    IF tp.tp = ""
    THEN Err(Unscan(ScanIgnoreWhitespace(tp.p).p), ErrExpected)
    ELSE AfterCastType(ScanIgnoreWhitespace(tp.p), e, tp.tp)

\* Parse required AS token.
AfterCastExpr(s3, e) ==
    IF s3.ti.tok # "AS" THEN Err(s3.p, ErrExpected)
    ELSE AfterType(parseType(s3.p), e)

AfterCastOperand(r) ==
    IF r.err # "" THEN Err(r.p, r.err)
    ELSE AfterCastExpr(ScanIgnoreWhitespace(r.p), r.e)

\* Parse required ( token.
AfterCastParen(s2) ==
    IF s2.ti.tok # "LPAREN" THEN Err(s2.p, ErrExpected)
    ELSE AfterCastOperand(ParseExpr(s2.p))

\* Parse required CAST token.
AfterCast(s) ==
    IF s.ti.tok # "CAST" THEN Err(s.p, ErrExpected)
    ELSE AfterCastParen(ScanIgnoreWhitespace(s.p))

\* parseCastExpression parses a string of the form CAST(expr AS type).
parseCastExpression(q) == AfterCast(ScanIgnoreWhitespace(q))

----------------------------------------------------------------------------
(* The statement parser's use of a Parser: the calls it makes on it *)

\* calls made on one parser
MaxCalls == 2

NoResult ==
    [call |-> "none", e |-> Nil, lit |-> <<>>, err |-> "", from |-> Nil]

\* the parser as a call finds it: the tokens read so far and the counters
Entry(q) ==
    [t |-> "entry", pos |-> Position(q), n |-> q.n,
     namedParams |-> q.namedParams, orderedParams |-> q.orderedParams]

Result(call, r, lit, q) ==
    [call |-> call, e |-> r.e, lit |-> lit, err |-> r.err, from |-> Entry(q)]

\* the histories are kept per call
Begin(q) ==
    [q EXCEPT !.hist = <<>>, !.dropped = FALSE, !.reread = <<>>,
              !.entered = <<>>]

\* a statement is given up at its first error
CanCall ==
    /\ calls < MaxCalls
    /\ res.err = ""
    /\ ~p.panic

\* ex, lit, err := p.ParseExpr()
CallParseExpr ==
    /\ CanCall
    /\ LET r == ParseExpr(Begin(p))
       IN  /\ p' = r.p
           /\ res' = Result("ParseExpr", r, r.lit, p)
    /\ calls' = calls + 1
    /\ UNCHANGED <<src, orig, shape>>

\* e, err := p.parseParam()
CallParseParam ==
    /\ CanCall
    /\ orig = NoResult
    /\ LET r == parseParam(Begin(p))
       IN  /\ p' = r.p
           /\ res' = Result("parseParam", r, <<>>, p)
    /\ calls' = calls + 1
    /\ UNCHANGED <<src, orig, shape>>

\* tok, pos, lit := p.ScanIgnoreWhitespace(): the statement parser reads a
\* token of its own (a comma, a keyword) between two expressions
CallScanIgnoreWhitespace ==
    /\ CanCall
    /\ orig = NoResult
    /\ res.call # "none"
    /\ LET s == ScanIgnoreWhitespace(Begin(p))
       IN  /\ s.ti.tok # "EOF"
           /\ p' = s.p
           /\ res' = Result("ScanIgnoreWhitespace", Ok(s.p, Nil), <<>>, p)
    /\ UNCHANGED <<src, orig, shape, calls>>

\* NewParser(strings.NewReader(lit)): a fresh parser on the literal that a
\* successful ParseExpr returned
Reparse ==
    /\ orig = NoResult
    /\ res.call = "ParseExpr"
    /\ res.err = ""
    /\ src' = res.lit
    /\ p' = NewParser(res.lit)
    /\ orig' = res
    /\ res' = NoResult
    /\ calls' = MaxCalls - 1
    /\ shape' = [kind |-> "literal"]

Next ==
    \/ CallParseExpr
    \/ CallParseParam
    \/ CallScanIgnoreWhitespace
    \/ Reparse

\* NewParser(strings.NewReader(s)) for a source string of the set
InitOn(sources) ==
    /\ src \in sources
    /\ p = NewParser(src)
    /\ res = NoResult
    /\ orig = NoResult
    /\ calls = 0

RECURSIVE Concats(_, _)
\* the strings made of at most n of the lexemes
Concats(lexemes, n) ==
    IF n = 0 THEN {<<>>}
    ELSE LET shorter == Concats(lexemes, n - 1)
         IN  shorter \cup {s \o l : s \in shorter, l \in lexemes}

----------------------------------------------------------------------------
(* Sources with bind parameters, lists and operators *)

MaxLen == 3

Lexemes ==
    {<<"?">>, <<"$", "x">>, <<"$">>, <<"(">>, <<")">>, <<",">>, <<"*">>,
     <<"1">>, <<"a">>}

Init ==
    /\ InitOn(Concats(Lexemes, MaxLen))
    /\ shape = [kind |-> "raw"]

Spec == Init /\ [][Next]_vars

\* the tokens the last call read and did not push back
ReadTokens == {TokenAt(p, k) : k \in (res.from.pos + 1)..Position(p)}

NamedRead == \E ti \in ReadTokens : ti.tok = "NAMEDPARAM" /\ Len(ti.lit) > 1

PositionalRead == \E ti \in ReadTokens : ti.tok = "POSITIONALPARAM"

BothKinds(s) == s.namedParams > 0 /\ s.orderedParams > 0

\* C2: namedParams and orderedParams are never both greater than zero, in no
\* state the parser goes through; and a ParseExpr that reads a named
\* parameter after a positional one was accepted, or a positional one after
\* a named one, returns an error
C2_OneParamKind ==
    /\ ~BothKinds(p)
    /\ \A k \in 1..Len(p.hist) : ~BothKinds(p.hist[k])
    /\ (res.call = "ParseExpr" /\ res.err = "") =>
          /\ ~(res.from.orderedParams > 0 /\ NamedRead)
          /\ ~(res.from.namedParams > 0 /\ PositionalRead)
          /\ ~(NamedRead /\ PositionalRead)

\* a ParseExpr that met a named parameter after a positional one was counted
\* by an earlier call has returned the error
C2_Witness ==
    /\ res.call = "ParseExpr"
    /\ res.err = ErrMix
    /\ res.from.orderedParams > 0
    /\ p.orderedParams > 0
    /\ p.namedParams = 0

\* the literal of a ParseExpr was parsed again by a fresh parser
Reparsed == orig # NoResult /\ res.call = "ParseExpr"

\* C7 as stated: parsing the literal of an expression that ParseExpr returned
\* with a fresh parser succeeds and returns an equal expression
C7_RoundTrip == Reparsed => (res.err = "" /\ res.e = orig.e)

\* C7, amended: the round trip of an expression that a top-level ParseExpr
\* returned on a parser that had counted no positional parameter before
C7_RoundTripUncounted ==
    (Reparsed /\ orig.from.orderedParams = 0) =>
        (res.err = "" /\ res.e = orig.e)

\* the literal of a positional parameter that was not the first expression
\* read from its parser gave an equal expression
C7_Witness ==
    /\ Reparsed
    /\ orig.from.orderedParams = 0
    /\ orig.from.pos > 0
    /\ orig.e.t = "positional"
    /\ res.err = ""
    /\ res.e = orig.e

----------------------------------------------------------------------------
(* Sources of the form primary (op primary)* *)

\* operators in one source
MaxOps == 3

\* an operator of each precedence tier, and a second of the comparison tier
OpLexemes ==
    {<<"*">>, <<"+">>, <<"&">>, <<"=">>, <<"<">>, <<"A", "N", "D">>,
     <<"O", "R">>}

OpSequences == UNION {[1..k -> OpLexemes] : k \in 1..MaxOps}

\* the token of an operator lexeme
OpToken(lexeme) == ScanToken(lexeme, 1).tok

DigitChars == <<"1", "2", "3", "4", "5", "6", "7", "8", "9">>

\* the k-th primary of a source: the integer k
Primary(k) == <<DigitChars[k]>>

RECURSIVE RenderOps(_, _)
\* the source of the first k operators: 1 op 2 op 3 ...
RenderOps(ops, k) ==
    IF k = 0 THEN Primary(1)
    ELSE RenderOps(ops, k - 1) \o <<" ">> \o ops[k] \o <<" ">> \o Primary(k + 1)

\* the last of the operators lo..hi that bind least
SplitAt(ops, lo, hi) ==
    CHOOSE k \in lo..hi :
        /\ \A j \in lo..hi : Precedence(OpToken(ops[k])) <= Precedence(OpToken(ops[j]))
        /\ \A j \in (k + 1)..hi : Precedence(OpToken(ops[k])) < Precedence(OpToken(ops[j]))

RECURSIVE Reference(_, _, _)
\* the reference parse of primaries lo..hi: the operator that binds least is
\* the root, and among equals the last one, so that equals group to the left
Reference(ops, lo, hi) ==
    IF lo = hi THEN IntValue(Primary(lo))
    ELSE LET k == SplitAt(ops, lo, hi - 1)
         IN  NewCmpOp(Reference(ops, lo, k), Reference(ops, k + 1, hi),
                      OpToken(ops[k]))

InitPrec ==
    /\ shape \in {[kind |-> "ops", ops |-> ops] : ops \in OpSequences}
    /\ InitOn({RenderOps(shape.ops, Len(shape.ops))})

SpecPrec == InitPrec /\ [][Next]_vars

\* a top-level ParseExpr on the whole source of a fresh parser has returned
ParsedWhole ==
    /\ res.call = "ParseExpr"
    /\ orig = NoResult
    /\ res.from.pos = 0

\* C1: the tree ParseExpr returns for primary (op primary)* is the tree of
\* the reference parse: an operator of higher precedence binds tighter, and
\* operators of equal precedence group to the left
C1_ReferenceTree ==
    (shape.kind = "ops" /\ ParsedWhole /\ res.err = "")
        => res.e = Reference(shape.ops, 1, Len(shape.ops) + 1)

\* a source with two operators of one tier and a tighter one after a looser
\* one was accepted
C1_Witness ==
    /\ shape.kind = "ops" /\ ParsedWhole /\ res.err = ""
    /\ \E k \in 1..(Len(shape.ops) - 1) :
          Precedence(OpToken(shape.ops[k])) = Precedence(OpToken(shape.ops[k + 1]))
    /\ \E k \in 1..(Len(shape.ops) - 1) :
          Precedence(OpToken(shape.ops[k])) < Precedence(OpToken(shape.ops[k + 1]))

----------------------------------------------------------------------------
(* Sources made of lists, positional parameters and operators *)

MaxListLen == 6

ListLexemes == {<<"(">>, <<")">>, <<"?">>, <<"*">>, <<",">>}

InitList ==
    /\ InitOn(Concats(ListLexemes, MaxListLen))
    /\ shape = [kind |-> "raw"]

SpecList == InitList /\ [][Next]_vars

RECURSIVE Positionals(_)
RECURSIVE PositionalsOfAll(_)
\* the indices of the positional parameters of an expression, from left to
\* right
Positionals(e) ==
    CASE e.t = "positional" -> <<e.index>>
      [] e.t = "op" -> Positionals(e.l) \o Positionals(e.r)
      [] e.t = "list" -> PositionalsOfAll(e.list)
      [] e.t = "document" ->
           PositionalsOfAll([k \in 1..Len(e.pairs) |-> e.pairs[k].V])
      [] e.t = "cast" -> Positionals(e.e)
      [] e.t = "func" -> PositionalsOfAll(e.args)
      [] OTHER -> <<>>

PositionalsOfAll(es) ==
    IF es = <<>> THEN <<>>
    ELSE Positionals(Head(es)) \o PositionalsOfAll(Tail(es))

\* C3: the positional parameters of an expression that ParseExpr returns on
\* a fresh parser carry, from left to right, the indices 1, 2, ..., N
C3_PositionalIndices ==
    (ParsedWhole /\ res.err = "") =>
        Positionals(res.e) = [k \in 1..Len(Positionals(res.e)) |-> k]

\* C4: when an element of a list or a pair of a document fails after tokens
\* of it were read, ParseExpr returns an error, never an expression without
\* that element
C4_NoRecovery ==
    (res.call = "ParseExpr" /\ res.err = "") => ~p.dropped

----------------------------------------------------------------------------
(* Sources that are one function call *)

\* arguments of one call
MaxArgs == 2

\* a function of one or two arguments, one of none and one not registered
FuncNames == {<<"f">>, <<"p", "k">>, <<"g">>}

ArgLexemes == {<<"1">>, <<"a">>, <<"?">>}

ArgSequences == UNION {[1..k -> ArgLexemes] : k \in 0..MaxArgs}

Blank(b) == IF b THEN <<" ">> ELSE <<>>

RECURSIVE RenderArgs(_, _)
\* the first k arguments, separated by commas
RenderArgs(args, k) ==
    IF k = 0 THEN <<>>
    ELSE IF k = 1 THEN args[1]
    ELSE RenderArgs(args, k - 1) \o <<",", " ">> \o args[k]

\* name(args), with or without the closing parenthesis and the blanks
RenderCall(c) ==
    Blank(c.lead) \o c.name \o <<"(">> \o RenderArgs(c.args, Len(c.args))
    \o Blank(c.gap) \o (IF c.closed THEN <<")">> ELSE <<>>) \o Blank(c.trail)

Calls ==
    [kind : {"call"}, name : FuncNames, args : ArgSequences,
     closed : BOOLEAN, lead : BOOLEAN, gap : BOOLEAN, trail : BOOLEAN]

InitFunc ==
    /\ shape \in Calls
    /\ InitOn({RenderCall(shape)})

SpecFunc == InitFunc /\ [][Next]_vars

\* C5: a call with arguments is accepted only with its closing parenthesis,
\* and an accepted call has read that parenthesis, so that the next token
\* read is the one after it
C5_ClosingParen ==
    (shape.kind = "call" /\ Len(shape.args) >= 1 /\ ParsedWhole) =>
        /\ ~shape.closed => res.err # ""
        /\ res.err = "" => Curr(p).tok = "RPAREN"

\* C6: the literal of a source that is one expression is the source without
\* the white space around it
C6_LiteralIsSource ==
    (shape.kind = "call" /\ shape.closed /\ ParsedWhole /\ res.err = "") =>
        res.lit = TrimSpace(src)

----------------------------------------------------------------------------
(* Sources that are one document *)

\* pairs of one document
MaxPairs == 2

\* the key a as an identifier and as a string, and another key
KeyLexemes == {<<"a">>, <<"\"", "a", "\"">>, <<"b">>}

\* a key, with or without a blank after it, with ": value" or with nothing
PairShapes == [key : KeyLexemes, blank : BOOLEAN, colon : BOOLEAN]

PairSequences == UNION {[1..k -> PairShapes] : k \in 0..MaxPairs}

\* the k-th pair of a source; its value is the integer k
RenderPair(pr, k) ==
    pr.key \o Blank(pr.blank)
    \o (IF pr.colon THEN <<":", " ">> \o Primary(k) ELSE <<>>)

RECURSIVE RenderPairs(_, _)
\* the first k pairs, separated by commas
RenderPairs(pairs, k) ==
    IF k = 0 THEN <<>>
    ELSE IF k = 1 THEN RenderPair(pairs[1], 1)
    ELSE RenderPairs(pairs, k - 1) \o <<",", " ">> \o RenderPair(pairs[k], k)

\* { pairs }, with or without a comma before the closing brace
RenderDocument(d) ==
    <<"{">> \o RenderPairs(d.pairs, Len(d.pairs))
    \o (IF d.comma THEN <<",">> ELSE <<>>) \o <<"}">>

Documents == [kind : {"doc"}, pairs : PairSequences, comma : BOOLEAN]

InitDoc ==
    /\ shape \in Documents
    /\ InitOn({RenderDocument(shape)})

SpecDoc == InitDoc /\ [][Next]_vars

\* the text of a key: the scanner takes the quotes off a string
KeyText(lexeme) == ScanToken(lexeme, 1).lit

RECURSIVE SourcePairs(_, _)
\* the key-value pairs among the first k pairs of a source, in source order
SourcePairs(pairs, k) ==
    IF k = 0 THEN <<>>
    ELSE IF pairs[k].colon
    THEN Append(SourcePairs(pairs, k - 1),
                KVPair(KeyText(pairs[k].key), IntValue(Primary(k))))
    ELSE SourcePairs(pairs, k - 1)

DocumentParsed == shape.kind = "doc" /\ ParsedWhole

\* C8: a document with a key that no colon follows is rejected, with or
\* without white space after the key
C8_KeyNeedsColon ==
    (DocumentParsed /\ \E k \in 1..Len(shape.pairs) : ~shape.pairs[k].colon)
        => res.err # ""

\* C9: a document with a comma right before the closing brace is rejected
C9_NoTrailingComma ==
    (DocumentParsed /\ shape.comma) => res.err # ""

\* C10: the document returned holds the key-value pairs of the source, one
\* pair for each and in source order, pairs of equal keys included
C10_PairsPreserved ==
    (DocumentParsed /\ res.err = "") =>
        res.e = KVPairs(SourcePairs(shape.pairs, Len(shape.pairs)))

\* a document with the key a written once as an identifier and once as a
\* string was accepted with both pairs
C10_Witness ==
    /\ DocumentParsed
    /\ res.err = ""
    /\ Len(res.e.pairs) = 2
    /\ res.e.pairs[1].K = res.e.pairs[2].K
    /\ shape.pairs[1].key # shape.pairs[2].key

----------------------------------------------------------------------------
(* Sources that are one path, with or without blanks around its dots *)

\* segments after the first one
MaxSegments == 2

\* a further segment: a name or an index, a blank before its dot or not, a
\* blank after its dot or not
SegmentShapes == [seg : {<<"b">>, <<"1">>}, before : BOOLEAN, after : BOOLEAN]

SegmentSequences == UNION {[1..k -> SegmentShapes] : k \in 0..MaxSegments}

RenderSegment(sg) ==
    Blank(sg.before) \o <<".">> \o Blank(sg.after) \o sg.seg

RECURSIVE RenderSegments(_, _)
\* a, followed by the first k further segments
RenderSegments(segs, k) ==
    IF k = 0 THEN <<"a">>
    ELSE RenderSegments(segs, k - 1) \o RenderSegment(segs[k])

Paths == [kind : {"path"}, segs : SegmentSequences]

InitPath ==
    /\ shape \in Paths
    /\ InitOn({RenderSegments(shape.segs, Len(shape.segs))})

SpecPath == InitPath /\ [][Next]_vars

PathParsed == shape.kind = "path" /\ ParsedWhole

Blanked(sg) == sg.before \/ sg.after

\* the number of further segments before the first one with a blank
Unblanked(segs) ==
    CHOOSE k \in 0..Len(segs) :
        /\ \A j \in 1..k : ~Blanked(segs[j])
        /\ k < Len(segs) => Blanked(segs[k + 1])

\* the path a and the first k further segments
PathOf(segs, k) == <<<<"a">>>> \o [j \in 1..k |-> segs[j].seg]

\* C11 as stated: a path with white space between two segments, before the
\* dot or after it, makes ParseExpr return an error
C11_BlankRejected ==
    (PathParsed /\ \E k \in 1..Len(shape.segs) : Blanked(shape.segs[k]))
        => res.err # ""

\* C11, amended: no path returned joins segments across white space; white
\* space after a dot is an error, and white space before a dot ends the
\* path at the segment before it, without an error
C11_BlankEndsPath ==
    PathParsed =>
        LET k == Unblanked(shape.segs)
        IN  IF k < Len(shape.segs) /\ ~shape.segs[k + 1].before
            THEN res.err # ""
            ELSE /\ res.err = ""
                 /\ res.e = FieldSelector(PathOf(shape.segs, k))
                 /\ res.lit = RenderSegments(shape.segs, k)

\* a path of two segments was returned for a source with a blank before the
\* dot of its third segment
C11_Witness ==
    /\ PathParsed
    /\ Len(shape.segs) = 2
    /\ ~Blanked(shape.segs[1])
    /\ shape.segs[2].before
    /\ res.err = ""
    /\ Len(res.e.path) = 2

----------------------------------------------------------------------------
(* Sources that are one integer *)

\* leading zeros of an integer
MaxPad == 1

DigitBefore ==
    ("1" :> "0") @@ ("2" :> "1") @@ ("3" :> "2") @@ ("4" :> "3") @@ ("5" :> "4")
    @@ ("6" :> "5") @@ ("7" :> "6") @@ ("8" :> "7") @@ ("9" :> "8")

RECURSIVE Pred(_)
\* the digits of d - 1, for d > 0 (a leading zero may stay)
Pred(d) ==
    IF d[Len(d)] # "0"
    THEN [d EXCEPT ![Len(d)] = DigitBefore[@]]
    ELSE Append(Pred(Sub(d, 1, Len(d) - 1)), "9")

\* 10^k
PowerOfTen(k) == <<"1">> \o [j \in 1..k |-> "0"]

\* magnitudes, each with what is known of it: around 2^31, 2^63 and the end
\* of the float64 range
Magnitudes ==
    {[digits |-> <<"0">>, is |-> "int64"],
     [digits |-> <<"7">>, is |-> "int64"],
     [digits |-> <<"2", "1", "4", "7", "4", "8", "3", "6", "4", "8">>, is |-> "int64"],
     [digits |-> Pred(MaxInt64Digits), is |-> "int64"],
     [digits |-> MaxInt64Digits, is |-> "int64"],
     [digits |-> MinInt64Digits, is |-> "int64 when negative"],
     [digits |-> <<"9", "2", "2", "3", "3", "7", "2", "0", "3", "6",
                   "8", "5", "4", "7", "7", "5", "8", "0", "9">>, is |-> "float64"],
     [digits |-> PowerOfTen(19), is |-> "float64"],
     [digits |-> PowerOfTen(47), is |-> "float64"],
     [digits |-> PowerOfTen(308), is |-> "float64"],
     [digits |-> Pred(FloatOverflowDigits), is |-> "float64"],
     [digits |-> FloatOverflowDigits, is |-> "neither"],
     [digits |-> PowerOfTen(309), is |-> "neither"]}

\* what follows the integer in its statement: nothing, or a comma
Followers == {<<>>, <<",">>}

Integers64 ==
    {[kind |-> "int", neg |-> neg, pad |-> pad, digits |-> m.digits,
      is |-> m.is, rest |-> rest] :
        neg \in BOOLEAN, pad \in 0..MaxPad, m \in Magnitudes,
        rest \in Followers}

\* the lexeme: sign, leading zeros, digits; then the rest of the statement
RenderInteger(c) ==
    (IF c.neg THEN <<"-">> ELSE <<>>) \o [j \in 1..c.pad |-> "0"] \o c.digits
    \o c.rest

InitInt ==
    /\ shape \in Integers64
    /\ InitOn({RenderInteger(shape)})

SpecInt == InitInt /\ [][Next]_vars

IntegerParsed == shape.kind = "int" /\ ParsedWhole

\* the value lies in [-2^63, 2^63 - 1]
InInt64 == shape.is = "int64" \/ (shape.is = "int64 when negative" /\ shape.neg)

\* the value of the source as an integer literal
IntegerValue ==
    IntValue(IF shape.neg /\ shape.digits # <<"0">>
             THEN <<"-">> \o shape.digits ELSE shape.digits)

\* the result is a float literal of the value of the source
IsFloatOfSource ==
    /\ res.err = ""
    /\ res.e.t = "float"
    /\ res.e.v = [neg |-> shape.neg, int |-> shape.digits, frac |-> <<>>]

\* C12 as stated: an integer in the signed 64-bit range gives an integer
\* literal of that value, and every integer outside it a float literal
C12_IntegerElseFloat ==
    IntegerParsed =>
        IF InInt64 THEN res.err = "" /\ res.e = IntegerValue
        ELSE IsFloatOfSource

\* C12, amended: an integer in the signed 64-bit range gives an integer
\* literal of that value; one outside it gives a float literal when its
\* magnitude is within the float64 range, and the error "unable to parse
\* integer" when it is beyond it
C12_IntegerFloatOrError ==
    IntegerParsed =>
        IF InInt64 THEN res.err = "" /\ res.e = IntegerValue
        ELSE IF shape.is = "neither" THEN res.err = "unable to parse integer"
        ELSE IsFloatOfSource

\* -2^63 - 1, just below the range, was returned as a float
C12_Witness ==
    /\ IntegerParsed
    /\ shape.neg
    /\ ~InInt64
    /\ Len(shape.digits) = Len(MinInt64Digits)
    /\ IsFloatOfSource

----------------------------------------------------------------------------
(* The shape of the operator trees *)

RECURSIVE Subtrees(_)
\* the expressions contained in an expression, itself included
Subtrees(e) ==
    {e} \cup
    CASE e.t = "op" -> Subtrees(e.l) \cup Subtrees(e.r)
      [] e.t = "list" -> UNION {Subtrees(e.list[k]) : k \in 1..Len(e.list)}
      [] e.t = "document" ->
           UNION {Subtrees(e.pairs[k].V) : k \in 1..Len(e.pairs)}
      [] e.t = "cast" -> Subtrees(e.e)
      [] e.t = "func" -> UNION {Subtrees(e.args[k]) : k \in 1..Len(e.args)}
      [] OTHER -> {}

OperatorNodes(e) == {n \in Subtrees(e) : IsOperatorNode(n)}

\* C13: every operator node of an expression that ParseExpr returns has a
\* left and a right child, neither of them nil, and is an operator of the
\* source: the dummy root is not in the tree
C13_TwoChildren ==
    (res.call = "ParseExpr" /\ res.err = "") =>
        /\ res.e # Nil
        /\ \A n \in OperatorNodes(res.e) :
              n.l # Nil /\ n.r # Nil /\ IsOperator(n.op)

\* a tree whose root has an operator on either side was returned
C13_Witness ==
    /\ shape.kind = "ops" /\ ParsedWhole /\ res.err = ""
    /\ IsOperatorNode(res.e)
    /\ IsOperatorNode(res.e.l)
    /\ IsOperatorNode(res.e.r)

RECURSIVE Spine(_)
\* the operators met from e down the right-hand sides
Spine(e) == IF IsOperatorNode(e) THEN <<e.op>> \o Spine(e.r) ELSE <<>>

\* C14 as stated: no operator has a strictly lower precedence than an
\* operator below it on its right spine
C14_NoLooserAncestor ==
    (res.call = "ParseExpr" /\ res.err = "") =>
        \A n \in OperatorNodes(res.e) : \A k \in 1..Len(Spine(n.r)) :
            ~(Precedence(n.op) < Precedence(Spine(n.r)[k]))

\* C14, amended: every operator has a strictly lower precedence than each
\* operator below it on its right spine; none is as tight as or tighter
\* than one below it
C14_TighterDownTheSpine ==
    (res.call = "ParseExpr" /\ res.err = "") =>
        \A n \in OperatorNodes(res.e) : \A k \in 1..Len(Spine(n.r)) :
            Precedence(n.op) < Precedence(Spine(n.r)[k])

\* a tree with three operators down its right spine was returned
C14_Witness ==
    /\ shape.kind = "ops" /\ ParsedWhole /\ res.err = ""
    /\ Len(Spine(res.e)) = 3

----------------------------------------------------------------------------
(* Sources of identifiers, lists, documents and casts, well formed or not *)

MaxPushLen == 3

PushLexemes ==
    {<<"a">>, <<" ">>, <<"(">>, <<")">>, <<"{">>, <<"}">>, <<":">>, <<",">>,
     <<"{", "a", ":">>,
     <<"C", "A", "S", "T", "(", "a", " ", "A", "S", " ">>}

InitPush ==
    /\ InitOn(Concats(PushLexemes, MaxPushLen))
    /\ shape = [kind |-> "raw"]

SpecPush == InitPush /\ [][Next]_vars

\* C15: at no point of a call are more than two tokens pushed back and not
\* read again, the error paths of lists, documents and casts included; and
\* after parseUnaryExpr has pushed an identifier and its successor back, the
\* next token read, white space aside, is that identifier
C15_TwoPushbacks ==
    /\ p.n <= 2
    /\ \A k \in 1..Len(p.hist) : p.hist[k].n <= 2
    /\ \A k \in 1..Len(p.reread) : p.reread[k].next = p.reread[k].ident

\* an identifier was pushed back together with its successor, two tokens
\* were pushed back at once, and a list pushed back after a failed element
C15_Witness ==
    /\ res.call = "ParseExpr"
    /\ p.reread # <<>>
    /\ \E k \in 1..Len(p.hist) : p.hist[k].n = 2
    /\ p.dropped

\* C16: the capture buffer is on exactly while the outermost ParseExpr
\* runs: that call makes the buffer, the ParseExpr calls nested in it make
\* none and leave it on, and when the outermost call returns, with or
\* without an error, the buffer is off again
C16_BufferOfOutermost ==
    /\ ~p.bufOn
    /\ p.buf = <<>>
    /\ res.call = "ParseExpr" =>
         /\ p.entered # <<>>
         /\ \A k \in 1..Len(p.entered) : p.entered[k] <=> (k = 1)
         /\ \A k \in 1..Len(p.hist) : p.hist[k].bufOn <=> (k < Len(p.hist))
    /\ res.call = "ScanIgnoreWhitespace" =>
         \A k \in 1..Len(p.hist) : ~p.hist[k].bufOn

\* a ParseExpr has returned a list whose element a nested ParseExpr parsed
C16_Witness ==
    /\ res.call = "ParseExpr"
    /\ res.err = ""
    /\ res.e.t = "list"
    /\ res.e.list # <<>>
    /\ ~p.dropped
    /\ Len(p.entered) >= 2

----------------------------------------------------------------------------
(* The parameter counters over the calls made on one parser *)

\* neither counter of b is below that of a
NoLess(a, b) ==
    /\ a.namedParams <= b.namedParams
    /\ a.orderedParams <= b.orderedParams

SameCounters(a, b) ==
    /\ a.namedParams = b.namedParams
    /\ a.orderedParams = b.orderedParams

\* the states of the call before its last token was read
BeforeLastToken == {k \in 1..Len(p.hist) : p.hist[k].pos < Position(p)}

\* the counters as they were before the last token of the call was read
CountersBefore ==
    IF BeforeLastToken = {} THEN res.from
    ELSE p.hist[CHOOSE k \in BeforeLastToken :
                    \A j \in BeforeLastToken : j <= k]

ParamError == res.err \in {ErrMix, ErrMissingName}

\* what a call leaves: the counters it found, those it went through and those
\* it leaves are in ascending order; the positional parameters of its
\* expression are numbered after those counted before; a parameter of the
\* kind that earlier calls did not count is not counted; and after a
\* parameter error the counters are those before the offending token
CountersKept ==
    /\ p.hist # <<>> =>
         /\ NoLess(res.from, p.hist[1])
         /\ NoLess(p.hist[Len(p.hist)], p)
    /\ \A k \in 1..(Len(p.hist) - 1) : NoLess(p.hist[k], p.hist[k + 1])
    /\ NoLess(res.from, p)
    /\ res.from.namedParams > 0 => p.orderedParams = 0
    /\ res.from.orderedParams > 0 => p.namedParams = 0
    /\ res.err = "" =>
         \A k \in 1..Len(Positionals(res.e)) :
            /\ Positionals(res.e)[k] > res.from.orderedParams
            /\ Positionals(res.e)[k] <= p.orderedParams
    /\ ParamError => SameCounters(CountersBefore, p)

\* C17: a call of ParseExpr or parseParam on a parser never lowers or resets
\* a parameter counter: the numbering of positional parameters goes on from
\* the call before and the ban on mixing holds over the calls; and a call
\* that returns the mixing error or "missing param name" leaves both
\* counters as they were before the offending token
C17_CountersOnlyGrow ==
    [][orig' = orig => (NoLess(p, p') /\ CountersKept')]_vars

\* a second call on a parser that had counted a named parameter has returned
\* "missing param name"
C17_Witness ==
    /\ res.call = "ParseExpr"
    /\ res.err = ErrMissingName
    /\ res.from.namedParams > 0
    /\ p.namedParams = res.from.namedParams

====
